---- MODULE Spec2Model ----
(***************************************************************************)
(* A model of the NFSv3 volume client (Target): the status translator      *)
(* NFS3Error, the call wrapper, the entry cache with its janitor, the path *)
(* resolver, the directory pager, the mutation operations and the          *)
(* recursive delete.  The NFS server and the RPC transport are the         *)
(* environment: a small directory tree and a nondeterministic failure.     *)
(***************************************************************************)
EXTENDS Integers, Sequences, FiniteSets, TLC

(***************************************************************************)
(* Bounds of the model.                                                    *)
(***************************************************************************)
NumThreads == 2
MaxTime == 2
MaxPage == 2
MaxStatus == 100
UnmappedCode == 9999
MaxInitEntries == 2
MaxTtl == 1
MaxBuckets == 3
MaxOver == 1

(***************************************************************************)
(* Protocol status codes (error.go, const block).                          *)
(***************************************************************************)
NFS3_OK == 0
NFS3ERR_PERM == 1
NFS3ERR_NOENT == 2
NFS3ERR_IO == 5
NFS3ERR_ACCES == 13
NFS3ERR_EXIST == 17
NFS3ERR_NOTDIR == 20
NFS3ERR_ISDIR == 21
NFS3ERR_NOSPC == 28
NFS3ERR_NOTEMPTY == 66
NFS3ERR_STALE == 70
NFS3ERR_BADHANDLE == 10001
NFS3ERR_NOT_SYNC == 10002
NFS3ERR_BAD_COOKIE == 10003
NFS3ERR_NOTSUPP == 10004
NFS3ERR_TOOSMALL == 10005
NFS3ERR_SERVERFAULT == 10006
NFS3ERR_BADTYPE == 10007

\* File type codes of the attributes: 2 is the directory type the cache tests.
NF3Reg == 1
NF3Dir == 2

\* The janitor's per-pass cap (cnt > 1000).
SweepCap == 1000

(***************************************************************************)
(* Errors.  A Go error value is a record: nil, one of the os sentinels, an *)
(* *Error whose string "error: N" carries N, or an error of the transport  *)
(* or of the decoder.                                                      *)
(***************************************************************************)
NoError == [kind |-> "nil", num |-> 0]
ErrPermission == [kind |-> "os.ErrPermission", num |-> 0]
ErrExist == [kind |-> "os.ErrExist", num |-> 0]
ErrNotExist == [kind |-> "os.ErrNotExist", num |-> 0]
GenericError(n) == [kind |-> "Error", num |-> n]
CallError == [kind |-> "transport", num |-> 0]
DecodeError == [kind |-> "decode", num |-> 0]

\* A variant of NFS3Error that maps NFS3ERR_ACCES, not NFS3ERR_PERM, to
\* os.ErrPermission.
NFS3ErrorAcces(errnum) ==
    CASE errnum = NFS3ERR_ACCES -> ErrPermission
      [] errnum = NFS3ERR_EXIST -> ErrExist
      [] errnum = NFS3ERR_NOENT -> ErrNotExist
      [] OTHER -> GenericError(errnum)

\* NFS3Error: the switch has the cases PERM, EXIST and NOENT and a default
\* that returns an *Error; no case returns nil (the trailing "return nil"
\* is after a switch whose every branch returns).
NFS3Error(errnum) ==
    CASE errnum = NFS3ERR_PERM -> ErrPermission
      [] errnum = NFS3ERR_EXIST -> ErrExist
      [] errnum = NFS3ERR_NOENT -> ErrNotExist
      [] OTHER -> GenericError(errnum)

\* os.IsNotExist and IsNotDirError, as RemoveAll uses them.
IsNotExist(err) == err = ErrNotExist
IsNotDirError(err) == err.kind = "Error" /\ err.num = NFS3ERR_NOTDIR

\* Target.call: the transport call, then the leading status word, then
\* NFS3Error.  reply.transport is "callerr" when v.Call fails, "readerr"
\* when the status word cannot be read, "ok" otherwise.
call(reply) ==
    IF reply.transport = "callerr" THEN CallError
    ELSE IF reply.transport = "readerr" THEN DecodeError
    ELSE NFS3Error(reply.status)


(***************************************************************************)
(* The environment: the server's directory tree.  A file handle is the     *)
(* path of the object it names; the root handle of the mount is <<>>.      *)
(***************************************************************************)
Paths == {<<>>, <<"a">>, <<"a", "b">>, <<"a", "d">>, <<"a", "b", "c">>}
NameOrder == <<"a", "b", "c", "d">>
Front(p) == SubSeq(p, 1, Len(p) - 1)
Last(p) == p[Len(p)]
Min(x, y) == IF x < y THEN x ELSE y

Trees ==
    {f \in [Paths -> {"none", "dir", "file"}] :
        /\ f[<<>>] = "dir"
        /\ \A p \in Paths \ {<<>>} : f[p] # "none" => f[Front(p)] = "dir"}

TypeOf(k) == IF k = "dir" THEN NF3Dir ELSE NF3Reg
Exists(f, p) == p \in Paths /\ f[p] # "none"
Children(f, fh) == {p \in Paths : p # <<>> /\ Front(p) = fh /\ f[p] # "none"}

\* What the server answers when the handle itself is not a directory.
BadDir(f, fh) == IF f[fh] = "none" THEN NFS3ERR_STALE ELSE NFS3ERR_NOTDIR

\* A reply: the transport's outcome, the leading status word and the body.
Reply(st, h, ty) ==
    [transport |-> "ok", status |-> st, fh |-> h, type |-> ty,
     page |-> <<>>, eof |-> FALSE, verf |-> 0]
CallFailed == [Reply(0, <<>>, 0) EXCEPT !.transport = "callerr"]
ReadFailed == [Reply(0, <<>>, 0) EXCEPT !.transport = "readerr"]
\* Replies that fail for a reason outside the tree: the transport, an I/O
\* error status.
Failures == {CallFailed, Reply(NFS3ERR_IO, <<>>, 0)}

\* NFSPROC3_LOOKUP.
SrvLookup(f, fh, name) ==
    IF f[fh] # "dir" THEN Reply(BadDir(f, fh), <<>>, 0)
    ELSE IF name = "." THEN Reply(NFS3_OK, fh, NF3Dir)
    ELSE IF ~Exists(f, Append(fh, name)) THEN Reply(NFS3ERR_NOENT, <<>>, 0)
    ELSE Reply(NFS3_OK, Append(fh, name), TypeOf(f[Append(fh, name)]))

\* NFSPROC3_RMDIR and NFSPROC3_REMOVE: the status, and the tree afterwards.
SrvRmdirStatus(f, fh, name) ==
    IF f[fh] # "dir" THEN BadDir(f, fh)
    ELSE IF ~Exists(f, Append(fh, name)) THEN NFS3ERR_NOENT
    ELSE IF f[Append(fh, name)] # "dir" THEN NFS3ERR_NOTDIR
    ELSE IF Children(f, Append(fh, name)) # {} THEN NFS3ERR_NOTEMPTY
    ELSE NFS3_OK
SrvRemoveStatus(f, fh, name) ==
    IF f[fh] # "dir" THEN BadDir(f, fh)
    ELSE IF ~Exists(f, Append(fh, name)) THEN NFS3ERR_NOENT
    ELSE IF f[Append(fh, name)] = "dir" THEN NFS3ERR_ISDIR
    ELSE NFS3_OK
\* NFSPROC3_MKDIR and NFSPROC3_CREATE (UNCHECKED mode truncates an existing
\* file; the model answers EXIST for an existing directory only).
SrvMkdirStatus(f, fh, name) ==
    IF f[fh] # "dir" THEN BadDir(f, fh)
    ELSE IF Append(fh, name) \notin Paths THEN NFS3ERR_NOSPC
    ELSE IF Exists(f, Append(fh, name)) THEN NFS3ERR_EXIST
    ELSE NFS3_OK
SrvCreateStatus(f, fh, name) ==
    IF f[fh] # "dir" THEN BadDir(f, fh)
    ELSE IF Append(fh, name) \notin Paths THEN NFS3ERR_NOSPC
    ELSE IF Exists(f, Append(fh, name)) /\ f[Append(fh, name)] = "dir"
         THEN NFS3ERR_EXIST
    ELSE NFS3_OK
SrvStatus(proc, f, fh, name) ==
    CASE proc = "rmdir" -> SrvRmdirStatus(f, fh, name)
      [] proc = "remove" -> SrvRemoveStatus(f, fh, name)
      [] proc = "mkdir" -> SrvMkdirStatus(f, fh, name)
      [] OTHER -> SrvCreateStatus(f, fh, name)
SrvApply(proc, f, fh, name) ==
    IF SrvStatus(proc, f, fh, name) # NFS3_OK THEN f
    ELSE [f EXCEPT ![Append(fh, name)] =
            CASE proc = "mkdir" -> "dir"
              [] proc = "create" -> "file"
              [] OTHER -> "none"]

\* NFSPROC3_READDIRPLUS.  The listing of a directory is ".", ".." and its
\* children in name order; an entry's cookie is its position.
EntryPlus(nm, ck, h, ty) ==
    [FileName |-> nm, Cookie |-> ck, HandleIsSet |-> TRUE, FH |-> h, Type |-> ty]
ChildNames(f, fh) ==
    SelectSeq(NameOrder, LAMBDA n : Exists(f, Append(fh, n)))
Listing(f, fh) ==
    LET cs == ChildNames(f, fh)
        up == IF fh = <<>> THEN fh ELSE Front(fh)
    IN  [i \in 1..(Len(cs) + 2) |->
            IF i = 1 THEN EntryPlus(".", 1, fh, NF3Dir)
            ELSE IF i = 2 THEN EntryPlus("..", 2, up, NF3Dir)
            ELSE EntryPlus(cs[i - 2], i, Append(fh, cs[i - 2]),
                           TypeOf(f[Append(fh, cs[i - 2])]))]
SrvVerf(fh) == Len(fh) + 1
\* The page of at most k entries after the cookie (a page may hold none).
SrvReadDirPlus(f, fh, cookie, cookieVerf, k) ==
    IF f[fh] # "dir" THEN Reply(BadDir(f, fh), <<>>, 0)
    ELSE IF cookie # 0 /\ cookieVerf # SrvVerf(fh)
         THEN Reply(NFS3ERR_BAD_COOKIE, <<>>, 0)
    ELSE LET L == Listing(f, fh)
             hi == Min(cookie + k, Len(L))
         IN  [Reply(NFS3_OK, fh, NF3Dir) EXCEPT
                 !.page = SubSeq(L, cookie + 1, hi),
                 !.eof = (hi >= Len(L)),
                 !.verf = SrvVerf(fh)]


(***************************************************************************)
(* The state.                                                               *)
(*   fs            the server's tree                                        *)
(*   entries       v.entries: handle key -> bucket; a bucket is a map       *)
(*                 object (id) and its contents es: name -> cacheEntry      *)
(*   nextId        the identity of the next map object make() returns       *)
(*   cacheM        v.cacheM: 0 when free, else the holder (a thread, or     *)
(*                 Janitor)                                                 *)
(*   entryTimeout  v.entryTimeout                                           *)
(*   now           the clock (time.Now), in seconds                         *)
(*   jan           the janitor goroutine: its position, the now it read,    *)
(*                 the time its sleep ends                                  *)
(*   th            one record per calling thread: the position (pc) and     *)
(*                 the locals of the operation it runs, with the remote     *)
(*                 calls it has issued (calls) and the tree the server had  *)
(*                 when it was called (tree0)                               *)
(*   lastCall      a reply handed to Target.call, and what call returned    *)
(***************************************************************************)
VARIABLES fs, entries, nextId, cacheM, entryTimeout, now, jan, th, lastCall

vars == <<fs, entries, nextId, cacheM, entryTimeout, now, jan, th, lastCall>>

Threads == 1..NumThreads
Janitor == NumThreads + 1
RootFH == <<>>

EmptyMap == [x \in {} |-> 0]
MapPut(m, k, v) == [x \in (DOMAIN m) \cup {k} |-> IF x = k THEN v ELSE m[x]]
MapDel(m, k) == [x \in (DOMAIN m) \ {k} |-> m[x]]

cacheEntry(h, a, e) == [fh |-> h, attr |-> a, expire |-> e]

\* parsefh: string(fh), the handle's bytes as a map key.
parsefh(fh) == fh

NoRet == [err |-> NoError, fh |-> <<>>, attr |-> 0, list |-> <<>>]
Idle ==
    [pc |-> "idle", op |-> "none", path |-> <<>>, dirents |-> <<>>,
     leaf |-> "", name |-> "", fh |-> RootFH, attr |-> 0, es |-> 0,
     lk |-> [fh |-> <<>>, attr |-> 0],
     proc |-> "", afh |-> <<>>, aname |-> "", cont |-> "",
     dfh |-> <<>>, cookie |-> 0, cookieVerf |-> 0, eof |-> FALSE,
     list |-> <<>>, stack |-> <<>>, calls |-> <<>>, tree0 |-> <<>>,
     err |-> NoError, ret |-> NoRet]

\* One remote call, as the call log records it.
Rpc(proc, fh, name, cookie, cookieVerf) ==
    [proc |-> proc, fh |-> fh, name |-> name, cookie |-> cookie,
     cookieVerf |-> cookieVerf, seen |-> 0]
\* A READDIRPLUS call, with the number of entries received before it.
RpcReadDir(fh, cookie, cookieVerf, seen) ==
    [proc |-> "READDIRPLUS", fh |-> fh, name |-> "", cookie |-> cookie,
     cookieVerf |-> cookieVerf, seen |-> seen]

\* What a remote call hands its caller: the error of call, else the error of
\* decoding the body (xdr.Read), else nil.
Outcome(reply, dec) ==
    IF call(reply) # NoError THEN call(reply)
    ELSE IF ~dec THEN DecodeError
    ELSE NoError

\* The thread has issued the call rpc and got err back.
Logged(r, rpc, err) == [r EXCEPT !.calls = Append(r.calls, rpc), !.err = err]

Handled(reply) ==
    [transport |-> reply.transport, status |-> reply.status, err |-> call(reply)]

\* filepath.Split on a clean relative path: the directory part and the leaf.
SplitDir(p) == Front(p)
SplitFile(p) == Last(p)
\* strings.Split(path.Clean(p), "/"): Clean("") is ".", so the empty path
\* has the one component ".".
Dirents(p) == IF p = <<>> THEN <<".">> ELSE p

PublicOps == {"Lookup", "ReadDirPlus", "Mkdir", "Create", "Remove", "RmDir", "RemoveAll"}

\* The operation returns: err, with the handle, attributes or listing.
Return(r, err, h, a, l) ==
    [Idle EXCEPT !.pc = "done", !.op = r.op, !.path = r.path, !.calls = r.calls,
                 !.tree0 = r.tree0, !.err = r.err,
                 !.ret = [err |-> err, fh |-> h, attr |-> a, list |-> l]]
Fail(r, err) == Return(r, err, <<>>, 0, <<>>)

\* readDirPlus starts: cookie, cookieVerf := 0, eof := false.
StartReadDir(r, h) ==
    [r EXCEPT !.pc = "rd_call", !.dfh = h, !.cookie = 0, !.cookieVerf = 0,
              !.eof = FALSE, !.list = <<>>]

\* v.rmDir / v.remove (fh, name), resuming at cont when it returns.
StartRm(r, proc, h, n, cont) ==
    [r EXCEPT !.pc = "rm_call", !.proc = proc, !.afh = h, !.aname = n,
              !.cont = cont]

\* Lookup has resolved every component: the operation goes on with the
\* handle (Lookup 172, ReadDirPlus 264, Mkdir 394, Create 440, Remove 485,
\* RmDir 526, RemoveAll 569).
AfterLookup(r) ==
    CASE r.op = "Lookup" -> Return(r, NoError, r.fh, r.attr, <<>>)
      [] r.op = "ReadDirPlus" -> StartReadDir(r, r.fh)
      [] r.op = "Mkdir" ->
            [r EXCEPT !.pc = "mk_call", !.proc = "mkdir", !.afh = r.fh,
                      !.aname = r.leaf]
      [] r.op = "Create" ->
            [r EXCEPT !.pc = "mk_call", !.proc = "create", !.afh = r.fh,
                      !.aname = r.leaf]
      [] r.op = "Remove" -> StartRm(r, "remove", r.fh, r.leaf, "op_ret")
      [] r.op = "RmDir" -> StartRm(r, "rmdir", r.fh, r.leaf, "op_ret")
      [] OTHER -> StartRm(r, "rmdir", r.fh, r.leaf, "ra_first")

\* cachedLookup returned (attr, fh, nil) to Lookup's loop: the next
\* component, or the end of the path.
LookupAdvance(r, a, h) ==
    LET r1 == [r EXCEPT !.fh = h, !.attr = a, !.es = 0]
    IN  IF r.dirents # <<>>
        THEN [r1 EXCEPT !.pc = "cl_lock", !.name = Head(r.dirents),
                        !.dirents = Tail(r.dirents)]
        ELSE AfterLookup(r1)

\* A public operation is called with a path: it splits the path and starts
\* Lookup at the root handle.
Begin(t, o, p) ==
    /\ th[t].pc \in {"idle", "done"}
    /\ o \in {"Lookup", "ReadDirPlus"} \/ p # <<>>
    /\ LET whole == o \in {"Lookup", "ReadDirPlus"}
           ds == Dirents(IF whole THEN p ELSE SplitDir(p))
       IN  th' = [th EXCEPT ![t] =
                    [Idle EXCEPT !.pc = "cl_lock", !.op = o, !.path = p,
                                 !.tree0 = fs,
                                 !.leaf = IF whole THEN "" ELSE SplitFile(p),
                                 !.name = Head(ds), !.dirents = Tail(ds)]]
    /\ UNCHANGED <<fs, entries, nextId, cacheM, entryTimeout, now, jan, lastCall>>

(***************************************************************************)
(* cachedLookup, step by step.                                             *)
(***************************************************************************)
\* The variant that honours an entry up to and including its expiration.
EntryLiveInclusive(e, tnow) == tnow <= e.expire

\* time.Since(e.expire) < 0: the entry is honoured strictly before expire.
EntryLive(e, tnow) == tnow < e.expire

\* v.cacheM.Lock() (181).
CLLock(t) ==
    /\ cacheM = 0
    /\ cacheM' = t
    /\ th' = [th EXCEPT ![t].pc = "cl_read"]
    /\ UNCHANGED <<fs, entries, nextId, entryTimeout, now, jan, lastCall>>

\* The variant of the cache read that goes to the remote lookup without
\* releasing the mutex on a miss.
CLReadKeepsLock(t) ==
    LET r == th[t]
        ino == parsefh(r.fh)
        has == ino \in DOMAIN entries
        hit == /\ has
               /\ r.name \in DOMAIN entries[ino].es
               /\ EntryLive(entries[ino].es[r.name], now)
    IN  /\ cacheM = t
        /\ cacheM' = IF hit THEN 0 ELSE t
        /\ th' = [th EXCEPT ![t] =
                    IF hit
                    THEN LookupAdvance(r, entries[ino].es[r.name].attr,
                                       entries[ino].es[r.name].fh)
                    ELSE [r EXCEPT !.pc = "cl_call",
                                   !.es = IF has THEN entries[ino].id ELSE 0]]
        /\ UNCHANGED <<fs, entries, nextId, entryTimeout, now, jan, lastCall>>

\* es := v.entries[ino]; a live entry is returned, else the mutex is
\* released and the remote lookup follows (182-190).
CLRead(t) ==
    LET r == th[t]
        ino == parsefh(r.fh)
        has == ino \in DOMAIN entries
        hit == /\ has
               /\ r.name \in DOMAIN entries[ino].es
               /\ EntryLive(entries[ino].es[r.name], now)
    IN  /\ cacheM = t
        /\ cacheM' = 0
        /\ th' = [th EXCEPT ![t] =
                    IF hit
                    THEN LookupAdvance(r, entries[ino].es[r.name].attr,
                                       entries[ino].es[r.name].fh)
                    ELSE [r EXCEPT !.pc = "cl_call",
                                   !.es = IF has THEN entries[ino].id ELSE 0]]
        /\ UNCHANGED <<fs, entries, nextId, entryTimeout, now, jan, lastCall>>

\* attr, fh, err := v.lookup(fh, name) (191, 215-256); a directory result
\* goes on to be cached, anything else returns.
CLCall(t) ==
    LET r == th[t]
    IN  \E reply \in {SrvLookup(fs, r.fh, r.name)} \cup Failures, dec \in BOOLEAN :
          /\ th' = [th EXCEPT ![t] =
                LET rc == Logged(r, Rpc("LOOKUP", r.fh, r.name, 0, 0),
                                 Outcome(reply, dec))
                IN
                IF call(reply) # NoError THEN Fail(rc, call(reply))
                ELSE IF ~dec THEN Fail(rc, DecodeError)
                ELSE IF reply.type = NF3Dir
                     THEN [rc EXCEPT !.pc = "cl_mkbucket",
                                     !.lk = [fh |-> reply.fh, attr |-> reply.type]]
                ELSE LookupAdvance(rc, reply.type, reply.fh)]
          /\ UNCHANGED <<fs, entries, nextId, cacheM, entryTimeout, now, jan, lastCall>>

\* if es == nil { es = make(...); v.entries[ino] = es } (193-196): the new
\* bucket is stored in v.entries before the mutex is taken.
CLMkBucket(t) ==
    LET r == th[t]
        ino == parsefh(r.fh)
    IN  /\ r.es = 0 => nextId <= MaxBuckets
        /\ IF r.es = 0
           THEN /\ entries' = MapPut(entries, ino, [id |-> nextId, es |-> EmptyMap])
                /\ nextId' = nextId + 1
                /\ th' = [th EXCEPT ![t] = [r EXCEPT !.pc = "cl_lock2", !.es = nextId]]
           ELSE /\ th' = [th EXCEPT ![t].pc = "cl_lock2"]
                /\ UNCHANGED <<entries, nextId>>
        /\ UNCHANGED <<fs, cacheM, entryTimeout, now, jan, lastCall>>

\* v.cacheM.Lock() (197).
CLLock2(t) ==
    /\ cacheM = 0
    /\ cacheM' = t
    /\ th' = [th EXCEPT ![t].pc = "cl_insert"]
    /\ UNCHANGED <<fs, entries, nextId, entryTimeout, now, jan, lastCall>>

\* es[name] = &cacheEntry{fh, attr, now + entryTimeout}; Unlock (198-201).
\* es is the map object read at 182 or made at 194: the write reaches
\* v.entries only while that object is still the bucket of ino.
CLInsert(t) ==
    LET r == th[t]
        ino == parsefh(r.fh)
        e == cacheEntry(r.lk.fh, r.lk.attr, now + entryTimeout)
    IN  /\ cacheM = t
        /\ cacheM' = 0
        /\ entries' =
              IF ino \in DOMAIN entries /\ entries[ino].id = r.es
              THEN [entries EXCEPT ![ino].es = MapPut(entries[ino].es, r.name, e)]
              ELSE entries
        /\ th' = [th EXCEPT ![t] = LookupAdvance(r, r.lk.attr, r.lk.fh)]
        /\ UNCHANGED <<fs, nextId, entryTimeout, now, jan, lastCall>>

(***************************************************************************)
(* The mutation operations, invalidateEntryCache and RemoveAll.            *)
(***************************************************************************)
\* v.rmDir or v.remove has returned err to its caller (cont):
\*   op_ret    Remove (485) and RmDir (526) return it;
\*   mk_ret    Mkdir (410) and Create (474) return the new handle;
\*   ra_first  RemoveAll after the plain removal (569-579);
\*   ra_last   RemoveAll after the removal of the emptied directory (589-593);
\*   rall_next removeAll after the removal of one entry (623-634).
Continue(r, err) ==
    CASE r.cont = "op_ret" -> Fail(r, err)
      [] r.cont = "mk_ret" -> Return(r, NoError, r.lk.fh, 0, <<>>)
      [] r.cont = "ra_first" ->
            IF err = NoError \/ IsNotExist(err) THEN Fail(r, NoError)
            ELSE IF IsNotDirError(err) THEN Fail(r, err)
            ELSE [r EXCEPT !.pc = "ra_lookup"]
      [] r.cont = "ra_last" -> Fail(r, err)
      [] OTHER ->
            IF err # NoError THEN Fail(r, err)
            ELSE [r EXCEPT !.pc = "rall_iter",
                           !.stack[Len(r.stack)].idx = r.stack[Len(r.stack)].idx + 1]

\* v.call(&RmDir3Args) in rmDir (536-554), v.call(&RemoveArgs) in remove
\* (495-513): an error returns to the caller, success goes on to invalidate.
RmCall(t) ==
    LET r == th[t]
        done == Reply(SrvStatus(r.proc, fs, r.afh, r.aname), <<>>, 0)
    IN  \E reply \in {done} \cup Failures :
          /\ fs' = IF reply = done THEN SrvApply(r.proc, fs, r.afh, r.aname) ELSE fs
          /\ th' = [th EXCEPT ![t] =
                LET rc == Logged(r, Rpc(IF r.proc = "rmdir" THEN "RMDIR" ELSE "REMOVE",
                                        r.afh, r.aname, 0, 0),
                                 Outcome(reply, TRUE))
                IN
                IF call(reply) # NoError THEN Continue(rc, call(reply))
                ELSE [rc EXCEPT !.pc = "inv_lock"]]
          /\ UNCHANGED <<entries, nextId, cacheM, entryTimeout, now, jan, lastCall>>

\* v.call(args) in Mkdir (394-407) and Create (440-471): an error, or a
\* response that does not decode, returns; success goes on to invalidate.
MkCall(t) ==
    LET r == th[t]
        st == SrvStatus(r.proc, fs, r.afh, r.aname)
        done == Reply(st, IF st = NFS3_OK THEN Append(r.afh, r.aname) ELSE <<>>, 0)
    IN  \E reply \in {done} \cup Failures, dec \in BOOLEAN :
          /\ fs' = IF reply = done THEN SrvApply(r.proc, fs, r.afh, r.aname) ELSE fs
          /\ th' = [th EXCEPT ![t] =
                LET rc == Logged(r, Rpc(IF r.proc = "mkdir" THEN "MKDIR" ELSE "CREATE",
                                        r.afh, r.aname, 0, 0),
                                 Outcome(reply, dec))
                IN
                IF call(reply) # NoError THEN Fail(rc, call(reply))
                ELSE IF ~dec THEN Fail(rc, DecodeError)
                ELSE [rc EXCEPT !.pc = "inv_lock", !.cont = "mk_ret",
                                !.lk = [fh |-> reply.fh, attr |-> 0]]]
          /\ UNCHANGED <<entries, nextId, cacheM, entryTimeout, now, jan, lastCall>>

\* invalidateEntryCache: v.cacheM.Lock() (206).
InvLock(t) ==
    /\ cacheM = 0
    /\ cacheM' = t
    /\ th' = [th EXCEPT ![t].pc = "inv_del"]
    /\ UNCHANGED <<fs, entries, nextId, entryTimeout, now, jan, lastCall>>

\* es, ok := v.entries[ino]; if ok { delete(es, name) }; Unlock (207-211).
\* The bucket itself stays, also when it is left empty.
InvDel(t) ==
    LET r == th[t]
        ino == parsefh(r.afh)
    IN  /\ cacheM = t
        /\ cacheM' = 0
        /\ entries' =
              IF ino \in DOMAIN entries
              THEN [entries EXCEPT ![ino].es = MapDel(entries[ino].es, r.aname)]
              ELSE entries
        /\ th' = [th EXCEPT ![t] = Continue(r, NoError)]
        /\ UNCHANGED <<fs, nextId, entryTimeout, now, jan, lastCall>>

\* The variant of RemoveAll's lookup of the target that does not test err
\* and goes on to removeAll with whatever handle came back.
RaLookupIgnoresError(t) ==
    LET r == th[t]
    IN  \E reply \in {SrvLookup(fs, r.fh, r.leaf)} \cup Failures, dec \in BOOLEAN :
          /\ th' = [th EXCEPT ![t] =
                LET rc == Logged(r, Rpc("LOOKUP", r.fh, r.leaf, 0, 0),
                                 Outcome(reply, dec))
                IN  StartReadDir(
                        [rc EXCEPT !.stack =
                            <<[dirfh |-> reply.fh, list |-> <<>>, idx |-> 1]>>],
                        reply.fh)]
          /\ UNCHANGED <<fs, entries, nextId, cacheM, entryTimeout, now, jan, lastCall>>

\* RemoveAll: _, deleteDirfh, err := v.lookup(parentDirfh, deleteDir)
\* (579-582), then removeAll(deleteDirfh) (584).
RaLookup(t) ==
    LET r == th[t]
    IN  \E reply \in {SrvLookup(fs, r.fh, r.leaf)} \cup Failures, dec \in BOOLEAN :
          /\ th' = [th EXCEPT ![t] =
                LET rc == Logged(r, Rpc("LOOKUP", r.fh, r.leaf, 0, 0),
                                 Outcome(reply, dec))
                IN
                IF call(reply) # NoError THEN Fail(rc, call(reply))
                ELSE IF ~dec THEN Fail(rc, DecodeError)
                ELSE StartReadDir(
                        [rc EXCEPT !.stack =
                            <<[dirfh |-> reply.fh, list |-> <<>>, idx |-> 1]>>],
                        reply.fh)]
          /\ UNCHANGED <<fs, entries, nextId, cacheM, entryTimeout, now, jan, lastCall>>

(***************************************************************************)
(* readDirPlus: one page per step.                                         *)
(***************************************************************************)
\* The cookie after a page: the cookie of its last entry (338); a page
\* without entries leaves it as it was.
NextCookie(cookie, page) ==
    IF page = <<>> THEN cookie ELSE page[Len(page)].Cookie

\* One turn of the loop (292-349): the call with the current cookie and
\* verifier, the header, the run of entries, the eof flag.  At eof the
\* listing is returned (351): to ReadDirPlus's caller, or to removeAll (603).
RdCall(t) ==
    LET r == th[t]
    IN  \E k \in 0..MaxPage, dec \in BOOLEAN :
        \E reply \in {SrvReadDirPlus(fs, r.dfh, r.cookie, r.cookieVerf, k)} \cup Failures :
          /\ th' = [th EXCEPT ![t] =
                LET rc == Logged(r, RpcReadDir(r.dfh, r.cookie, r.cookieVerf, Len(r.list)),
                                 Outcome(reply, dec))
                IN
                IF call(reply) # NoError THEN Fail(rc, call(reply))
                ELSE IF ~dec THEN Fail(rc, DecodeError)
                ELSE LET all == rc.list \o reply.page
                         r2 == [rc EXCEPT !.list = all,
                                          !.cookie = NextCookie(rc.cookie, reply.page),
                                          !.eof = reply.eof,
                                          !.cookieVerf = reply.verf]
                     IN  IF ~reply.eof THEN r2
                         ELSE IF r2.stack = <<>> THEN Return(r2, NoError, <<>>, 0, all)
                         ELSE [r2 EXCEPT !.pc = "rall_iter",
                                         !.stack[Len(r2.stack)].list = all,
                                         !.stack[Len(r2.stack)].idx = 1]]
          /\ UNCHANGED <<fs, entries, nextId, cacheM, entryTimeout, now, jan, lastCall>>

\* removeAll's loop over the entries of the directory on top of the stack
\* (608-636): "." and ".." are skipped, a directory is emptied first
\* (recursion) and then removed, anything else is removed as a file.  When
\* the entries are used up removeAll returns nil: to the removeAll that
\* recursed (623) or to RemoveAll (589).
RallIter(t) ==
    LET r == th[t]
        n == Len(r.stack)
        top == r.stack[n]
        e == top.list[top.idx]
    IN  /\ th' = [th EXCEPT ![t] =
            IF top.idx > Len(top.list)
            THEN IF n = 1
                 THEN StartRm([r EXCEPT !.stack = <<>>], "rmdir", r.fh, r.leaf, "ra_last")
                 ELSE LET up == r.stack[n - 1]
                      IN  StartRm([r EXCEPT !.stack = SubSeq(r.stack, 1, n - 1)],
                                  "rmdir", up.dirfh, up.list[up.idx].FileName,
                                  "rall_next")
            ELSE IF e.FileName = "." \/ e.FileName = ".."
                 THEN [r EXCEPT !.stack[n].idx = top.idx + 1]
            ELSE IF e.Type = NF3Dir
                 THEN IF e.HandleIsSet
                      THEN StartReadDir(
                              [r EXCEPT !.stack =
                                  Append(r.stack,
                                         [dirfh |-> e.FH, list |-> <<>>, idx |-> 1])],
                              e.FH)
                      ELSE StartRm(r, "rmdir", top.dirfh, e.FileName, "rall_next")
            ELSE StartRm(r, "remove", top.dirfh, e.FileName, "rall_next")]
        /\ UNCHANGED <<fs, entries, nextId, cacheM, entryTimeout, now, jan, lastCall>>

\* One step of the operation a thread runs.
Operation(t) ==
    CASE th[t].pc = "cl_lock" -> CLLock(t)
      [] th[t].pc = "cl_read" -> CLRead(t)
      [] th[t].pc = "cl_call" -> CLCall(t)
      [] th[t].pc = "cl_mkbucket" -> CLMkBucket(t)
      [] th[t].pc = "cl_lock2" -> CLLock2(t)
      [] th[t].pc = "cl_insert" -> CLInsert(t)
      [] th[t].pc = "rm_call" -> RmCall(t)
      [] th[t].pc = "mk_call" -> MkCall(t)
      [] th[t].pc = "inv_lock" -> InvLock(t)
      [] th[t].pc = "inv_del" -> InvDel(t)
      [] th[t].pc = "ra_lookup" -> RaLookup(t)
      [] th[t].pc = "rd_call" -> RdCall(t)
      [] th[t].pc = "rall_iter" -> RallIter(t)
      [] OTHER -> FALSE

(***************************************************************************)
(* cleanupCache, the janitor goroutine.                                    *)
(***************************************************************************)
\* The subsets of S that have k elements.
RECURSIVE KSubsets(_, _)
KSubsets(S, k) ==
    IF k = 0 THEN {{}}
    ELSE IF k = 1 THEN {{x} : x \in S}
    ELSE LET x == CHOOSE y \in S : TRUE
         IN  IF Cardinality(S) < k THEN {}
             ELSE KSubsets(S \ {x}, k) \cup {T \cup {x} : T \in KSubsets(S \ {x}, k - 1)}

RECURSIVE EntriesIn(_, _)
EntriesIn(ents, inos) ==
    IF inos = {} THEN {}
    ELSE LET ino == CHOOSE x \in inos : TRUE
         IN  {<<ino, n>> : n \in DOMAIN ents[ino].es} \cup EntriesIn(ents, inos \ {ino})
AllEntries(ents) == EntriesIn(ents, DOMAIN ents)

\* The number of entries in the buckets inos of the cache.
RECURSIVE CountIn(_, _)
CountIn(ents, inos) ==
    IF inos = {} THEN 0
    ELSE LET ino == CHOOSE x \in inos : TRUE
         IN  Cardinality(DOMAIN ents[ino].es) + CountIn(ents, inos \ {ino})
NumEntries(ents) == CountIn(ents, DOMAIN ents)

\* The iteration order of the two range loops (127-128) decides which
\* entries a pass leaves out: none, or, when the cache holds more than the
\* cap lets through (cnt++ and then cnt > 1000), all but that many, bucket
\* by bucket (at most one bucket is left out in part).
Skips(ents) ==
    LET A == AllEntries(ents)
        over == NumEntries(ents) - (SweepCap + 1)
        size == [ino \in DOMAIN ents |-> Cardinality(DOMAIN ents[ino].es)]
    IN  IF over <= 0 THEN {{}}
        ELSE {S \in KSubsets(A, over) :
                Cardinality({ino \in {k[1] : k \in S} :
                    Cardinality({k \in S : k[1] = ino}) < size[ino]}) <= 1}

\* cnt at the end of a pass whose iteration order leaves out skip: the
\* number of entries it has inspected (cnt++ at 135).
Inspections(ents, skip) ==
    NumEntries(ents)
        - Cardinality({k \in skip : /\ k[1] \in DOMAIN ents
                                     /\ k[2] \in DOMAIN ents[k[1]].es})

\* The variant with the comparison the other way round: the entries that
\* expire after now are the ones deleted.
ExpiredSwapped(e, tnow) == e.expire > tnow

\* now.After(e.expire) (129).
Expired(e, tnow) == tnow > e.expire

\* One pass over the entries it does not leave out (127-140): an expired
\* entry is deleted, and its bucket with it when that leaves the bucket
\* empty.
Sweep(ents, tnow, skip) ==
    LET dead == [ino \in DOMAIN ents |->
                    {n \in DOMAIN ents[ino].es :
                        <<ino, n>> \notin skip /\ Expired(ents[ino].es[n], tnow)}]
        keep == {ino \in DOMAIN ents :
                    dead[ino] = {} \/ dead[ino] # DOMAIN ents[ino].es}
    IN  [ino \in keep |->
            IF dead[ino] = {} THEN ents[ino]
            ELSE [ents[ino] EXCEPT !.es =
                    [n \in (DOMAIN ents[ino].es) \ dead[ino] |-> ents[ino].es[n]]]]

\* v.cacheM.Lock(); now := time.Now() (123-124); the iteration order of
\* the pass is the map's to choose.
JanLock ==
    /\ jan.pc = "lock"
    /\ cacheM = 0
    /\ cacheM' = Janitor
    /\ \E S \in Skips(entries) :
         jan' = [jan EXCEPT !.pc = "sweep", !.now = now, !.skip = S]
    /\ UNCHANGED <<fs, entries, nextId, entryTimeout, now, th, lastCall>>

\* The pass, v.cacheM.Unlock(), time.Sleep(time.Second) (126-142); cnt is
\* the number of entries the pass inspected.  The clock of the model stops
\* at MaxTime: a sleep that would end later ends there.
JanSweep ==
    /\ jan.pc = "sweep"
    /\ cacheM' = 0
    /\ jan' = [pc |-> "sleep", now |-> 0, wake |-> Min(now + 1, MaxTime),
               cnt |-> Inspections(entries, jan.skip), skip |-> {}]
    /\ entries' = Sweep(entries, jan.now, jan.skip)
    /\ UNCHANGED <<fs, nextId, entryTimeout, now, th, lastCall>>

\* The sleep is over: the next turn of the loop.
JanWake ==
    /\ jan.pc = "sleep"
    /\ now >= jan.wake
    /\ jan' = [pc |-> "lock", now |-> 0, wake |-> 0, cnt |-> 0, skip |-> {}]
    /\ UNCHANGED <<fs, entries, nextId, cacheM, entryTimeout, now, th, lastCall>>

cleanupCache == JanLock \/ JanSweep \/ JanWake

\* Time passes.
Tick ==
    /\ now < MaxTime
    /\ now' = now + 1
    /\ UNCHANGED <<fs, entries, nextId, cacheM, entryTimeout, jan, th, lastCall>>

(***************************************************************************)
(* The specifications.                                                     *)
(***************************************************************************)
NoCall == [transport |-> "none", status |-> 0, err |-> NoError]

\* NewTarget: an empty cache, the janitor started, no operation running.
Init ==
    /\ fs \in Trees
    /\ entries = EmptyMap
    /\ nextId = 1
    /\ cacheM = 0
    /\ entryTimeout \in 1..MaxTtl
    /\ now = 0
    /\ jan = [pc |-> "lock", now |-> 0, wake |-> 0, cnt |-> 0, skip |-> {}]
    /\ th = [t \in Threads |-> Idle]
    /\ lastCall = NoCall

Next ==
    \/ \E o \in PublicOps, p \in Paths : Begin(1, o, p)
    \/ \E t \in Threads : Operation(t)
    \/ cleanupCache
    \/ Tick

Spec == Init /\ [][Next]_vars


(***************************************************************************)
(* Target.call and NFS3Error on their own: call is handed every reply the  *)
(* transport can produce, over the status codes of the protocol and some   *)
(* codes it does not define.                                               *)
(***************************************************************************)
StatusCodes ==
    (0..MaxStatus) \cup {UnmappedCode}
        \cup {NFS3ERR_BADHANDLE, NFS3ERR_NOT_SYNC, NFS3ERR_BAD_COOKIE,
              NFS3ERR_NOTSUPP, NFS3ERR_TOOSMALL, NFS3ERR_SERVERFAULT,
              NFS3ERR_BADTYPE}

TransportReplies ==
    {CallFailed, ReadFailed} \cup {Reply(st, <<>>, 0) : st \in StatusCodes}

callStep ==
    /\ \E reply \in TransportReplies : lastCall' = Handled(reply)
    /\ UNCHANGED <<fs, entries, nextId, cacheM, entryTimeout, now, jan, th>>

\* The tree of the example: a/ {b/ {c}, d}, c and d regular files.
FullTree ==
    [p \in Paths |-> IF p \in {<<"a", "d">>, <<"a", "b", "c">>} THEN "file" ELSE "dir"]
RootOnly == [p \in Paths |-> IF p = <<>> THEN "dir" ELSE "none"]

InitStatus == Init /\ fs = RootOnly
SpecStatus == InitStatus /\ [][callStep]_vars

(***************************************************************************)
(* readDirPlus on its own: called with the handle of an object of the      *)
(* tree, against a server that cuts the listing into pages of 1..MaxPage   *)
(* entries.                                                                *)
(***************************************************************************)
InitPager ==
    /\ fs \in Trees
    /\ entries = EmptyMap
    /\ nextId = 1
    /\ cacheM = 0
    /\ entryTimeout = 1
    /\ now = 0
    /\ jan = [pc |-> "lock", now |-> 0, wake |-> 0, cnt |-> 0, skip |-> {}]
    /\ lastCall = NoCall
    /\ \E h \in Paths :
         /\ fs[h] # "none"
         /\ th = [t \in Threads |->
                    IF t = 1
                    THEN StartReadDir([Idle EXCEPT !.op = "readDirPlus", !.path = h,
                                                   !.tree0 = fs], h)
                    ELSE Idle]

NextPager == \E t \in Threads : Operation(t)

SpecPager == InitPager /\ [][NextPager]_vars

(***************************************************************************)
(* The operations over a cache that holds entries: the directories of the  *)
(* example's path, each with an expiration within the model's time.        *)
(***************************************************************************)
CacheKeys == {<<<<>>, ".">>, <<<<>>, "a">>, <<<<"a">>, "b">>}
LookupTarget(k) == IF k[2] = "." THEN k[1] ELSE Append(k[1], k[2])

\* The cache with the entries ks, entry k expiring at ex[k].
CacheOf(ks, ex) ==
    [ino \in {k[1] : k \in ks} |->
        [id |-> Len(ino) + 1,
         es |-> [n \in {k[2] : k \in {x \in ks : x[1] = ino}} |->
                    cacheEntry(LookupTarget(<<ino, n>>), NF3Dir, ex[<<ino, n>>])]]]

InitCache ==
    /\ fs \in {FullTree, RootOnly}
    /\ \E ks \in SUBSET CacheKeys :
         /\ Cardinality(ks) <= MaxInitEntries
         /\ \E ex \in [ks -> 1..MaxTime] : entries = CacheOf(ks, ex)
    /\ nextId = MaxBuckets
    /\ cacheM = 0
    /\ entryTimeout = 1
    /\ now = 0
    /\ jan = [pc |-> "lock", now |-> 0, wake |-> 0, cnt |-> 0, skip |-> {}]
    /\ th = [t \in Threads |-> Idle]
    /\ lastCall = NoCall

SpecCache == InitCache /\ [][Next]_vars

(***************************************************************************)
(* cleanupCache on its own, over a cache of few entries, of as many as one *)
(* pass inspects, and of MaxOver more: all but one under the root handle,  *)
(* one under a.  Every entry expires within the time of the model.  The    *)
(* janitor goroutine is scheduled, the mutex is free whenever it asks, and *)
(* time passes.                                                            *)
(***************************************************************************)
\* The caches: the size, the expiration of the entries under the root, the
\* expiration of the entry under a.
JanInputs ==
    {<<n, ex1, ex2>> : n \in {2, SweepCap + 1},
                       ex1 \in 0..(MaxTime - 1), ex2 \in 0..(MaxTime - 1)}
        \cup {<<SweepCap + 1 + MaxOver, 0, 0>>}

\* n entries: the names 1..n-1 under the root, expiring at ex1, and the
\* name 1 under a, expiring at ex2.
JanCache(n, ex1, ex2) ==
    [ino \in {<<>>, <<"a">>} |->
        IF ino = <<>>
        THEN [id |-> 1, es |-> [k \in 1..(n - 1) |-> cacheEntry(<<"a">>, NF3Dir, ex1)]]
        ELSE [id |-> 2, es |-> [k \in {1} |-> cacheEntry(<<"a", "b">>, NF3Dir, ex2)]]]

InitJanitor ==
    /\ fs = FullTree
    /\ \E in \in JanInputs : entries = JanCache(in[1], in[2], in[3])
    /\ nextId = MaxBuckets
    /\ cacheM = 0
    /\ entryTimeout = 1
    /\ now = 0
    /\ jan = [pc |-> "lock", now |-> 0, wake |-> 0, cnt |-> 0, skip |-> {}]
    /\ th = [t \in Threads |-> Idle]
    /\ lastCall = NoCall

NextJanitor == cleanupCache \/ Tick

SpecJanitor ==
    /\ InitJanitor
    /\ [][NextJanitor]_vars
    /\ WF_vars(NextJanitor)

(***************************************************************************)
(* invalidateEntryCache on its own: called with a handle and a name over a *)
(* cache that holds entries, the janitor running beside it.                *)
(***************************************************************************)
InitInvalidate ==
    /\ fs \in {FullTree, RootOnly}
    /\ \E ks \in SUBSET CacheKeys :
         /\ Cardinality(ks) <= MaxInitEntries
         /\ \E ex \in [ks -> 1..MaxTime] : entries = CacheOf(ks, ex)
    /\ nextId = MaxBuckets
    /\ cacheM = 0
    /\ entryTimeout = 1
    /\ now = 0
    /\ jan = [pc |-> "lock", now |-> 0, wake |-> 0, cnt |-> 0, skip |-> {}]
    /\ lastCall = NoCall
    /\ \E k \in CacheKeys :
         th = [t \in Threads |->
                 IF t = 1
                 THEN [Idle EXCEPT !.pc = "inv_lock", !.op = "invalidateEntryCache",
                                   !.afh = k[1], !.aname = k[2], !.cont = "op_ret",
                                   !.tree0 = fs]
                 ELSE Idle]

NextInvalidate ==
    \/ \E t \in Threads : Operation(t)
    \/ cleanupCache
    \/ Tick

SpecInvalidate == InitInvalidate /\ [][NextInvalidate]_vars


(***************************************************************************)
(* Properties.                                                             *)
(***************************************************************************)
\* An error that comes from outside the tree: the transport, the decoder,
\* an I/O error status.
External(err) == err \in {CallError, DecodeError, GenericError(NFS3ERR_IO)}

Finished(t, o) == th[t].pc = "done" /\ th[t].op = o

\* No remote call succeeds: whatever the server answers, call returns an
\* error (NFS3Error has no nil result).  So cachedLookup never reaches its
\* insertion (193-199), no mutation reaches invalidateEntryCache, removeAll
\* never gets a listing, and mkdir, create, remove, rmdir and the listing
\* never return success.
EveryCallFails ==
    \A t \in Threads :
        /\ th[t].pc \notin {"cl_mkbucket", "cl_lock2", "cl_insert", "inv_lock",
                            "inv_del", "rall_iter"}
        /\ (th[t].pc = "done"
              /\ th[t].op \in {"Mkdir", "Create", "Remove", "RmDir", "ReadDirPlus",
                                "readDirPlus"})
             => th[t].ret.err # NoError

\* The cache accesses that do run hold the mutex: a thread reads the map
\* only as the holder, and so does the janitor's pass.
ReadsHoldMutex ==
    /\ \A t \in Threads : th[t].pc = "cl_read" => cacheM = t
    /\ jan.pc = "sweep" => cacheM = Janitor

\* C1: a status word of zero is success: when the transport call succeeds
\* and the leading status code is 0, call returns the response stream and
\* no error.
C1_ZeroStatusIsSuccess ==
    (lastCall.transport = "ok" /\ lastCall.status = NFS3_OK)
        => lastCall.err = NoError

\* C2 as stated: 2 is not-found, 17 is already-exists, 13 is
\* permission-denied, and every other non-zero code N is a generic error
\* that carries N.
C2_MappingAsStated ==
    lastCall.transport = "ok" =>
        /\ lastCall.status = NFS3ERR_NOENT => lastCall.err = ErrNotExist
        /\ lastCall.status = NFS3ERR_EXIST => lastCall.err = ErrExist
        /\ lastCall.status = NFS3ERR_ACCES => lastCall.err = ErrPermission
        /\ lastCall.status \notin {NFS3_OK, NFS3ERR_NOENT, NFS3ERR_EXIST, NFS3ERR_ACCES}
              => lastCall.err = GenericError(lastCall.status)

\* C2 as amended: 2 is not-found, 17 is already-exists, 1 (NFS3ERR_PERM) is
\* permission-denied, and every other non-zero code N, 13 included, is a
\* generic error that carries N.
C2_StatusMapping ==
    lastCall.transport = "ok" =>
        /\ lastCall.status = NFS3ERR_NOENT => lastCall.err = ErrNotExist
        /\ lastCall.status = NFS3ERR_EXIST => lastCall.err = ErrExist
        /\ lastCall.status = NFS3ERR_PERM => lastCall.err = ErrPermission
        /\ lastCall.status \notin {NFS3_OK, NFS3ERR_NOENT, NFS3ERR_EXIST, NFS3ERR_PERM}
              => lastCall.err = GenericError(lastCall.status)

\* The translator has been handed code 13 and has answered with the generic
\* error that carries 13.
C2_Witness ==
    /\ lastCall.transport = "ok"
    /\ lastCall.status = NFS3ERR_ACCES
    /\ lastCall.err = GenericError(NFS3ERR_ACCES)

\* What a step of cachedLookup's cache read hands on: the handle and the
\* attributes Lookup goes on with or, at the end of the path, returns.
Resolved(r) ==
    IF r.pc = "done" THEN [fh |-> r.ret.fh, attr |-> r.ret.attr]
    ELSE [fh |-> r.fh, attr |-> r.attr]

\* C4: a resolve step for a component that has a cache entry returns the
\* cached handle and attributes without a remote call when the time is
\* strictly before the entry's expiration; at or after the expiration, and
\* when the entry is gone (swept), it issues the remote lookup, which is the
\* next call of the operation.
C4_CacheTtl ==
    [][\A t \in Threads :
        LET r == th[t]
            ino == parsefh(r.fh)
            cached == ino \in DOMAIN entries /\ r.name \in DOMAIN entries[ino].es
        IN  /\ (r.pc = "cl_read" /\ th'[t] # r) =>
                IF cached /\ now < entries[ino].es[r.name].expire
                THEN /\ th'[t].calls = r.calls
                     /\ th'[t].pc # "cl_call"
                     /\ Resolved(th'[t]).fh = entries[ino].es[r.name].fh
                     /\ Resolved(th'[t]).attr = entries[ino].es[r.name].attr
                ELSE th'[t].pc = "cl_call" /\ th'[t].calls = r.calls
            /\ (r.pc = "cl_call" /\ th'[t] # r) =>
                th'[t].calls = Append(r.calls, Rpc("LOOKUP", r.fh, r.name, 0, 0))
      ]_vars

\* A Lookup of a/b has taken a from the cache without a remote call and is
\* about to look b up remotely, b's entry being in the cache, expired and
\* not yet swept.
C4_Witness ==
    \E t \in Threads :
        /\ th[t].pc = "cl_call"
        /\ th[t].op = "Lookup"
        /\ th[t].fh = <<"a">>
        /\ th[t].name = "b"
        /\ th[t].calls = <<>>
        /\ <<"a">> \in DOMAIN entries
        /\ "b" \in DOMAIN entries[<<"a">>].es
        /\ entries[<<"a">>].es["b"].expire <= now

\* C6: readDirPlus on a directory returns the whole listing in server
\* order, each entry once; its calls are READDIRPLUS calls on the handle,
\* the first with cookie 0 and verifier 0, each later one with the cookie
\* of the last entry received and the verifier of the page before it, one
\* per page, none after the page that ends the listing.
C6_PagerReturnsListing ==
    \A t \in Threads :
        (/\ Finished(t, "readDirPlus")
         /\ th[t].tree0[th[t].path] = "dir"
         /\ ~External(th[t].ret.err))
        => LET c == th[t].calls
               L == Listing(th[t].tree0, th[t].path)
           IN  /\ th[t].ret.err = NoError
               /\ th[t].ret.list = L
               /\ c[1].cookie = 0 /\ c[1].cookieVerf = 0
               /\ \A i \in 1..Len(c) :
                    /\ c[i].proc = "READDIRPLUS" /\ c[i].fh = th[t].path
                    /\ c[i].seen < Len(L)
                    /\ i > 1 => /\ c[i].seen > c[i - 1].seen
                                /\ c[i].cookie = L[c[i].seen].Cookie
                                /\ c[i].cookieVerf = SrvVerf(th[t].path)

\* C7: removeTree(p) returns success and removes nothing when p does not
\* exist on the server, also when p's parent does not exist.
C7_RemoveTreeAbsent ==
    \A t \in Threads :
        (/\ Finished(t, "RemoveAll")
         /\ th[t].tree0[th[t].path] = "none"
         /\ ~External(th[t].ret.err))
        => th[t].ret.err = NoError /\ fs = th[t].tree0

\* C8: removeTree(p) on a regular file returns a not-a-directory error,
\* issues no REMOVE, and the file is still there.
C8_RemoveTreeOnFile ==
    \A t \in Threads :
        (/\ Finished(t, "RemoveAll")
         /\ th[t].tree0[th[t].path] = "file"
         /\ ~External(th[t].ret.err))
        => /\ IsNotDirError(th[t].ret.err)
           /\ \A i \in 1..Len(th[t].calls) : th[t].calls[i].proc # "REMOVE"
           /\ fs[th[t].path] = "file"

\* C9: removeTree(p) on a directory tree, no call failing for an outside
\* reason, returns success, and p and everything beneath it are gone (a
\* remote lookup of any of them answers not-found).
C9_RemoveTreeRemovesAll ==
    \A t \in Threads :
        (/\ Finished(t, "RemoveAll")
         /\ th[t].tree0[th[t].path] = "dir"
         /\ ~External(th[t].ret.err))
        => /\ th[t].ret.err = NoError
           /\ \A q \in Paths :
                (Len(q) >= Len(th[t].path)
                    /\ SubSeq(q, 1, Len(th[t].path)) = th[t].path)
                => fs[q] = "none"

\* A remote call of RemoveAll's recursion: the lookup of the target's
\* handle, a listing, the removal of an entry, the removal of the emptied
\* top-level directory.
RecursionCall(r) ==
    /\ r.op = "RemoveAll"
    /\ \/ r.pc \in {"ra_lookup", "rd_call"}
       \/ r.pc = "rm_call" /\ r.cont \in {"rall_next", "ra_last"}

CallPcs == {"cl_call", "rm_call", "mk_call", "ra_lookup", "rd_call"}

\* C17: no remote call is issued while the cache mutex is held: a thread
\* about to issue a remote call does not hold the mutex, and the janitor
\* holds it only for its pass, which issues no call.
C17_NoCallUnderMutex ==
    /\ \A t \in Threads : th[t].pc \in CallPcs => cacheM # t
    /\ cacheM = Janitor => jan.pc = "sweep"

\* A Mkdir of a/b has found a's cache entry expired under the mutex, has
\* released the mutex and is about to issue the LOOKUP of a.
C17_Witness ==
    \E t \in Threads :
        /\ cacheM = 0
        /\ th[t].op = "Mkdir"
        /\ th[t].pc = "cl_call"
        /\ th[t].name = "a"
        /\ th[t].es # 0
        /\ th[t].calls = <<>>

\* C15: a janitor pass inspects at most 1000 cache entries, however many
\* the cache holds.
C15_PassInspectsAtMostCap == jan.cnt <= SweepCap

\* The cache holds an entry whose expiration has passed.
ExpiredLeft ==
    \E ino \in DOMAIN entries :
        \E n \in DOMAIN entries[ino].es : entries[ino].es[n].expire < now

C20_NoEmptyBucketAfterPass ==
    [][(jan.pc = "sweep" /\ jan'.pc = "sleep" /\ jan'.cnt <= SweepCap)
        => \A ino \in DOMAIN entries' : DOMAIN entries'[ino].es # {}
      ]_vars

====
